---- MODULE Spec2Model ----
(***************************************************************************)
(* State-machine model of src/src/render_client.rs: the linear buffer      *)
(* packer (append_buffer_data / BufferBuilder) and VickiRenderClient.      *)
(*                                                                         *)
(* A Rust panic (assert!, expect, unwrap, slice index out of bounds) is    *)
(* fatal: it is recorded in a panic variable and no operation runs after   *)
(* it.  State written before the panicking line keeps its new value.       *)
(***************************************************************************)
EXTENDS Integers, Naturals, Sequences, FiniteSets, TLC

(***************************************************************************)
(* Bounds of the model                                                     *)
(***************************************************************************)
\* length of the byte slice handed to a stand-alone BufferBuilder
BufLen == 9
\* largest element count of one stand-alone append
MaxCount == 3
\* number of append calls made on one stand-alone BufferBuilder
MaxAppends == 4

(***************************************************************************)
(* Bit arithmetic on usize values (all values of the model are < 2^31)     *)
(***************************************************************************)
RECURSIVE BitAnd(_, _)
\* x & y
BitAnd(x, y) ==
    IF x = 0 \/ y = 0 THEN 0
    ELSE (IF x % 2 = 1 /\ y % 2 = 1 THEN 1 ELSE 0) + 2 * BitAnd(x \div 2, y \div 2)

RECURSIVE count_ones(_)
\* usize::count_ones
count_ones(x) == IF x = 0 THEN 0 ELSE (x % 2) + count_ones(x \div 2)

(***************************************************************************)
(* Element types T: std::mem::size_of::<T>() and std::mem::align_of::<T>() *)
(***************************************************************************)
ElemType(s, a) == [size |-> s, align |-> a]

\* element types a stand-alone BufferBuilder is used with: u8, u16, u32, [f32; 2]
ElemTypes == {ElemType(1, 1), ElemType(2, 2), ElemType(4, 4), ElemType(8, 4)}

(***************************************************************************)
(* fn append_buffer_data<T: Copy>(buf_slice, buf_written, data) -> usize   *)
(* buf_len = buf_slice.len(), T = element type, n = data.len().            *)
(* Result: panic ("none" when the call returns), ret (the returned         *)
(* offset), written (the new *buf_written), start/bytes (the range copied  *)
(* to; bytes = 0 when nothing is copied).                                  *)
(***************************************************************************)
\* mutant: the cursor is rounded down instead of up
append_buffer_data_round_down(buf_len, buf_written, T, n) ==
    IF n # 0 THEN
        LET alignment == T.align
            data_start == buf_written - BitAnd(buf_written, alignment - 1)
            data_bytes == n * T.size
        IN  IF count_ones(alignment) # 1
            THEN [panic |-> "assert_alignment", ret |-> 0,
                  written |-> buf_written, start |-> 0, bytes |-> 0, copied |-> FALSE]
            ELSE IF ~(data_start + data_bytes <= buf_len)
            THEN [panic |-> "assert_capacity", ret |-> 0,
                  written |-> buf_written, start |-> 0, bytes |-> 0, copied |-> FALSE]
            ELSE [panic |-> "none", ret |-> data_start,
                  written |-> data_start + data_bytes,
                  start |-> data_start, bytes |-> data_bytes, copied |-> TRUE]
    ELSE [panic |-> "none", ret |-> 0, written |-> buf_written,
          start |-> 0, bytes |-> 0, copied |-> FALSE]

\* mutant: the cursor is not aligned at all
append_buffer_data_unaligned(buf_len, buf_written, T, n) ==
    IF n # 0 THEN
        LET alignment == T.align
            data_start == buf_written
            data_bytes == n * T.size
        IN  IF count_ones(alignment) # 1
            THEN [panic |-> "assert_alignment", ret |-> 0,
                  written |-> buf_written, start |-> 0, bytes |-> 0, copied |-> FALSE]
            ELSE IF ~(data_start + data_bytes <= buf_len)
            THEN [panic |-> "assert_capacity", ret |-> 0,
                  written |-> buf_written, start |-> 0, bytes |-> 0, copied |-> FALSE]
            ELSE [panic |-> "none", ret |-> data_start,
                  written |-> data_start + data_bytes,
                  start |-> data_start, bytes |-> data_bytes, copied |-> TRUE]
    ELSE [panic |-> "none", ret |-> 0, written |-> buf_written,
          start |-> 0, bytes |-> 0, copied |-> FALSE]

\* mutant: the cursor is not advanced past the data copied
append_buffer_data_no_advance(buf_len, buf_written, T, n) ==
    IF n # 0 THEN
        LET alignment == T.align
            x == buf_written + alignment - 1
            data_start == x - BitAnd(x, alignment - 1)
            data_bytes == n * T.size
        IN  IF count_ones(alignment) # 1
            THEN [panic |-> "assert_alignment", ret |-> 0,
                  written |-> buf_written, start |-> 0, bytes |-> 0, copied |-> FALSE]
            ELSE IF ~(data_start + data_bytes <= buf_len)
            THEN [panic |-> "assert_capacity", ret |-> 0,
                  written |-> buf_written, start |-> 0, bytes |-> 0, copied |-> FALSE]
            ELSE [panic |-> "none", ret |-> data_start,
                  written |-> data_start,
                  start |-> data_start, bytes |-> data_bytes, copied |-> TRUE]
    ELSE [panic |-> "none", ret |-> 0, written |-> buf_written,
          start |-> 0, bytes |-> 0, copied |-> FALSE]

\* mutant: the capacity assertion runs after the copy and the cursor update
append_buffer_data_late_assert(buf_len, buf_written, T, n) ==
    IF n # 0 THEN
        LET alignment == T.align
            x == buf_written + alignment - 1
            data_start == x - BitAnd(x, alignment - 1)
            data_bytes == n * T.size
        IN  IF count_ones(alignment) # 1
            THEN [panic |-> "assert_alignment", ret |-> 0,
                  written |-> buf_written, start |-> 0, bytes |-> 0, copied |-> FALSE]
            ELSE IF ~(data_start + data_bytes <= buf_len)
            THEN [panic |-> "assert_capacity", ret |-> 0,
                  written |-> data_start + data_bytes,
                  start |-> data_start, bytes |-> data_bytes, copied |-> TRUE]
            ELSE [panic |-> "none", ret |-> data_start,
                  written |-> data_start + data_bytes,
                  start |-> data_start, bytes |-> data_bytes, copied |-> TRUE]
    ELSE [panic |-> "none", ret |-> 0, written |-> buf_written,
          start |-> 0, bytes |-> 0, copied |-> FALSE]

append_buffer_data(buf_len, buf_written, T, n) ==
    IF n # 0 THEN
        LET alignment == T.align
            \* (*buf_written + alignment - 1) & !(alignment - 1)
            x == buf_written + alignment - 1
            data_start == x - BitAnd(x, alignment - 1)
            data_bytes == n * T.size
        IN  IF count_ones(alignment) # 1
            THEN [panic |-> "assert_alignment", ret |-> 0,
                  written |-> buf_written, start |-> 0, bytes |-> 0, copied |-> FALSE]
            ELSE IF ~(data_start + data_bytes <= buf_len)
            THEN [panic |-> "assert_capacity", ret |-> 0,
                  written |-> buf_written, start |-> 0, bytes |-> 0, copied |-> FALSE]
            ELSE [panic |-> "none", ret |-> data_start,
                  written |-> data_start + data_bytes,
                  start |-> data_start, bytes |-> data_bytes, copied |-> TRUE]
    ELSE [panic |-> "none", ret |-> 0, written |-> buf_written,
          start |-> 0, bytes |-> 0, copied |-> FALSE]

(***************************************************************************)
(* Program constants                                                       *)
(***************************************************************************)
MAX_GPU_MESHES == 1024
VERTEX_BUFFER_CAPACITY == 1024 * 1024 * 128
\* capacity of the sampled-image array of binding 2.  The constant is imported
\* from the backend crate; its value is not set in render_client.rs and the
\* model uses a small stand-in.
MAX_BINDLESS_DESCRIPTOR_COUNT == 4

(***************************************************************************)
(* Integer casts                                                           *)
(***************************************************************************)
\* `x as u32` for a usize x: x mod 2^32, computed on 16-bit halves
as_u32(x) == ((x \div 65536) % 65536) * 65536 + (x % 65536)

\* mutant: the offset is truncated to 16 bits
as_u32_truncated(x) == x % 65536

(***************************************************************************)
(* PackedTriangleMesh: a mesh is given by the lengths of its six streams   *)
(* and by the largest value of its index array (0 when there is none).     *)
(***************************************************************************)
\* the order in which add_mesh appends the streams
StreamOrder == <<"indices", "verts", "uvs", "material_ids", "colors", "materials">>

\* element types of the streams: u32, PackedVertex, [f32; 2], u32, [f32; 4],
\* MeshMaterial
StreamType ==
    [indices |-> ElemType(4, 4), verts |-> ElemType(16, 4), uvs |-> ElemType(8, 4),
     material_ids |-> ElemType(4, 4), colors |-> ElemType(16, 4),
     materials |-> ElemType(32, 4)]

PackedTriangleMesh(ni, maxi, nv, nuv, nm, nc, nmat) ==
    [indices |-> ni, max_index |-> maxi, verts |-> nv, uvs |-> nuv,
     material_ids |-> nm, colors |-> nc, materials |-> nmat]

\* one triangle with every stream present
TriMesh == PackedTriangleMesh(3, 2, 3, 3, 3, 3, 1)
\* one triangle without uvs, colors and materials
BareMesh == PackedTriangleMesh(3, 2, 3, 0, 3, 0, 0)
\* a mesh whose index array is empty
EmptyMesh == PackedTriangleMesh(0, 0, 3, 3, 3, 3, 1)
\* a mesh whose vertex stream takes three eighths of the arena (3 * 2^20 * 16
\* bytes): the arena holds two of them, not three
BigMesh == PackedTriangleMesh(3, 2, 1024 * 1024 * 3, 3, 3, 3, 1)

(***************************************************************************)
(* The six appends of add_mesh (lines 415-420), in order, starting at      *)
(* stream k with cursor written; rets are the offsets returned so far.     *)
(* A panicking append stops the sequence and leaves the cursor where the   *)
(* earlier appends put it.                                                 *)
(***************************************************************************)
RECURSIVE append_mesh_streams(_, _, _, _)
append_mesh_streams(mesh, k, written, rets) ==
    IF k > Len(StreamOrder)
    THEN [panic |-> "none", written |-> written, rets |-> rets]
    ELSE LET name == StreamOrder[k]
             r == append_buffer_data(VERTEX_BUFFER_CAPACITY, written,
                                     StreamType[name], mesh[name])
         IN  IF r.panic # "none"
             THEN [panic |-> r.panic, written |-> r.written, rets |-> rets]
             ELSE append_mesh_streams(mesh, k + 1, r.written, Append(rets, r.ret))

\* the copies the same six appends of one add_mesh make into the mapped vertex
\* buffer (line 105), in order: the byte range of each and the stream it holds
RECURSIVE mesh_stream_copies(_, _, _, _)
mesh_stream_copies(mesh, k, written, copies) ==
    IF k > Len(StreamOrder)
    THEN copies
    ELSE LET name == StreamOrder[k]
             r == append_buffer_data(VERTEX_BUFFER_CAPACITY, written,
                                     StreamType[name], mesh[name])
         IN  IF r.panic # "none"
             THEN IF r.copied
                  THEN Append(copies, [start |-> r.start, bytes |-> r.bytes, stream |-> name])
                  ELSE copies
             ELSE mesh_stream_copies(mesh, k + 1, r.written,
                      IF r.copied
                      THEN Append(copies, [start |-> r.start, bytes |-> r.bytes,
                                           stream |-> name])
                      ELSE copies)

\* mutant: the index offset and the vertex-core offset change places
GpuMesh_swapped(vertex_core_offset, vertex_uv_offset, vertex_mat_offset, vertex_aux_offset, mat_data_offset, index_offset) ==
    [vertex_core_offset |-> index_offset, vertex_uv_offset |-> vertex_uv_offset,
     vertex_mat_offset |-> vertex_mat_offset, vertex_aux_offset |-> vertex_aux_offset,
     mat_data_offset |-> mat_data_offset, index_offset |-> vertex_core_offset]

\* struct GpuMesh
GpuMesh(vertex_core_offset, vertex_uv_offset, vertex_mat_offset, vertex_aux_offset, mat_data_offset, index_offset) ==
    [vertex_core_offset |-> vertex_core_offset, vertex_uv_offset |-> vertex_uv_offset,
     vertex_mat_offset |-> vertex_mat_offset, vertex_aux_offset |-> vertex_aux_offset,
     mat_data_offset |-> mat_data_offset, index_offset |-> index_offset]

\* mutant: every descriptor is written to slot 0
write_slot_first(table, mesh_idx, gpu_mesh) ==
    [i \in (DOMAIN table) \cup {0} |-> IF i = 0 THEN gpu_mesh ELSE table[i]]

\* mesh_buffer_dst[mesh_idx] = gpu_mesh (line 457)
write_slot(table, mesh_idx, gpu_mesh) ==
    [i \in (DOMAIN table) \cup {mesh_idx} |-> IF i = mesh_idx THEN gpu_mesh ELSE table[i]]

\* mutant: the slice of descriptors is one slot longer than the table
slot_in_bounds_off_by_one(mesh_idx) == mesh_idx <= MAX_GPU_MESHES

\* the bounds check of mesh_buffer_dst[mesh_idx], a slice of MAX_GPU_MESHES slots
slot_in_bounds(mesh_idx) == mesh_idx < MAX_GPU_MESHES

\* mutant: an empty index array yields 0 instead of None
indices_max_or_zero(mesh) == <<mesh.max_index>>

\* mesh.indices.iter().copied().max(): <<>> is None, <<m>> is Some(m)
indices_max(mesh) == IF mesh.indices = 0 THEN <<>> ELSE <<mesh.max_index>>

\* a device address: the base address of the vertex buffer plus an offset
DeviceAddress(offset) == [base |-> "vertex_buffer", offset |-> offset]

(***************************************************************************)
(* State                                                                   *)
(***************************************************************************)
VARIABLES
    \* a stand-alone BufferBuilder<'a>
    buf_slice,      \* BufferBuilder::buf_slice: byte index -> 0 (never written) or
                    \* the ordinal of the append call whose data the byte holds
    buf_written,    \* BufferBuilder::buf_written
    appends,        \* the append calls made so far: element type, count, the
                    \* cursor before the call and the offset returned
                    \* (returned = FALSE when the call panicked)
    \* VickiRenderClient
    meshes,                 \* Vec<UploadedTriMesh>
    mesh_blas,              \* Vec<RayTracingAcceleration>
    tlas,                   \* Option<Arc<RayTracingAcceleration>>: <<>> is None,
                            \* <<t>> is Some(t)
    mesh_buffer,            \* the mapped [GpuMesh; MAX_GPU_MESHES]: slot -> GpuMesh,
                            \* defined on the slots written so far
    vertex_buffer_written,  \* usize
    vertex_buffer_data,     \* the contents of the mapped vertex buffer: for each
                            \* add_mesh that got the mapped slice, the byte ranges
                            \* it copied into it and the stream each holds
    descriptor_writes,      \* the update_descriptor_sets calls made on the
                            \* bindless descriptor set, in order
    bindless_images,        \* Vec<Image>
    image_luts,             \* Vec<ImageLut>
    next_bindless_image_id, \* usize
    render_mode,            \* RenderMode
    frame_idx,              \* u32, as [hi, lo] of 16 bits each
    reset_reference_accumulation, \* bool
    accum_img,              \* TemporalImage: access_type and last_rg_handle
                            \* (<<>> is None, <<g>> the handle exported by graph g)
    \* environment
    rgs,            \* the render graphs handed to prepare_render_graph, in order
    handles,        \* the BindlessImageHandles returned by add_bindless_image_view
    last_call,      \* the last operation called, its arguments and results
    panic           \* "none", or the panic that ended the program

packer_vars == <<buf_slice, buf_written, appends>>
geometry_vars == <<meshes, mesh_blas, mesh_buffer, vertex_buffer_written,
                   vertex_buffer_data>>
bindless_vars == <<descriptor_writes, bindless_images, image_luts,
                   next_bindless_image_id, handles>>
frame_vars == <<render_mode, frame_idx, reset_reference_accumulation, accum_img, rgs>>

vars == <<buf_slice, buf_written, appends, meshes, mesh_blas, tlas, mesh_buffer,
          vertex_buffer_written, vertex_buffer_data, descriptor_writes, bindless_images, image_luts,
          next_bindless_image_id, render_mode, frame_idx,
          reset_reference_accumulation, accum_img, rgs, handles, last_call, panic>>

(***************************************************************************)
(* BufferBuilder                                                           *)
(***************************************************************************)
\* BufferBuilder::new over a fresh slice of BufLen bytes and a cursor of 0
BufferBuilder_new ==
    /\ buf_slice = [i \in 0 .. BufLen - 1 |-> 0]
    /\ buf_written = 0
    /\ appends = <<>>

\* BufferBuilder::append(&mut self, data: &[T]) with data.len() = n
BufferBuilder_append(T, n) ==
    /\ panic = "none"
    /\ LET r == append_buffer_data(BufLen, buf_written, T, n)
           ordinal == Len(appends) + 1
       IN  /\ buf_slice' = [i \in 0 .. BufLen - 1 |->
                               IF r.copied /\ i >= r.start /\ i < r.start + r.bytes
                               THEN ordinal ELSE buf_slice[i]]
           /\ buf_written' = r.written
           /\ appends' = Append(appends, [T |-> T, n |-> n, cursor |-> buf_written,
                                          returned |-> r.panic = "none", ret |-> r.ret])
           /\ panic' = r.panic
    /\ last_call' = [op |-> "append"]
    /\ UNCHANGED <<geometry_vars, tlas, bindless_vars, frame_vars>>

(***************************************************************************)
(* VickiRenderClient                                                       *)
(***************************************************************************)
\* mutant: the clone of a retired graph is not counted
vertex_buffer_refs_prepared_only ==
    Cardinality({g \in 1 .. Len(rgs) : rgs[g].vertex_buffer /\ rgs[g].state = "prepared"})

\* the strong references to the vertex buffer held outside the renderer: one
\* per render graph that took a clone (line 518) and was not dropped yet
vertex_buffer_refs ==
    Cardinality({g \in 1 .. Len(rgs) : rgs[g].vertex_buffer /\ rgs[g].state # "dropped"})

\* VickiRenderClient::new (the fields of lines 292-311 and the two
\* write_descriptor_set_buffer calls of lines 266-278)
VickiRenderClient_new ==
    /\ accum_img = [access_type |-> "Nothing", last_rg_handle |-> <<>>]
    /\ reset_reference_accumulation = FALSE
    /\ meshes = <<>>
    /\ mesh_blas = <<>>
    /\ tlas = <<>>
    /\ mesh_buffer = <<>>
    /\ vertex_buffer_written = 0
    /\ vertex_buffer_data = <<>>
    /\ descriptor_writes = << [dst_binding |-> 0, dst_array_element |-> 0,
                               resource |-> <<"mesh_buffer", 0>>],
                              [dst_binding |-> 1, dst_array_element |-> 0,
                               resource |-> <<"vertex_buffer", 0>>] >>
    /\ bindless_images = <<>>
    /\ image_luts = <<>>
    /\ next_bindless_image_id = 0
    /\ render_mode = "Standard"
    /\ frame_idx = [hi |-> 0, lo |-> 0]

\* mutant: the handle is taken after the counter was incremented
add_bindless_image_view_post_increment(view) ==
    LET handle == as_u32(next_bindless_image_id + 1)
    IN  /\ next_bindless_image_id' = next_bindless_image_id + 1
        /\ descriptor_writes' = Append(descriptor_writes,
                                       [dst_binding |-> 2, dst_array_element |-> handle,
                                        resource |-> view])
        /\ handles' = Append(handles, handle)

\* add_bindless_image_view(&mut self, view) -> BindlessImageHandle; the handle
\* returned is the last element of handles'
add_bindless_image_view(view) ==
    LET handle == as_u32(next_bindless_image_id)
    IN  /\ next_bindless_image_id' = next_bindless_image_id + 1
        /\ descriptor_writes' = Append(descriptor_writes,
                                       [dst_binding |-> 2, dst_array_element |-> handle,
                                        resource |-> view])
        /\ handles' = Append(handles, handle)

\* mutant: the id is compared with the LUT's index among the LUTs
add_image_lut_own_index(computer, id) ==
    /\ panic = "none"
    /\ image_luts' = Append(image_luts, computer)
    /\ add_bindless_image_view(<<"image_lut", Len(image_luts')>>)
    /\ panic' = IF Len(image_luts) = id THEN "none" ELSE "assert_eq_handle_id"
    /\ last_call' = [op |-> "add_image_lut", id |-> id,
                     registered_before |-> next_bindless_image_id]
    /\ UNCHANGED <<packer_vars, geometry_vars, tlas, bindless_images, frame_vars>>

\* pub fn add_image_lut(&mut self, computer, id: usize)
add_image_lut(computer, id) ==
    /\ panic = "none"
    /\ image_luts' = Append(image_luts, computer)
    /\ add_bindless_image_view(<<"image_lut", Len(image_luts')>>)
    /\ LET handle == handles'[Len(handles')]
       IN  panic' = IF handle = id THEN "none" ELSE "assert_eq_handle_id"
    /\ last_call' = [op |-> "add_image_lut", id |-> id,
                     registered_before |-> next_bindless_image_id]
    /\ UNCHANGED <<packer_vars, geometry_vars, tlas, bindless_images, frame_vars>>

\* pub fn add_image(&mut self, src, params) -> BindlessImageHandle;
\* created = the device's create_image returned Ok
add_image(gamma, created) ==
    /\ panic = "none"
    /\ LET format == IF gamma = "Linear" THEN "R8G8B8A8_UNORM" ELSE "R8G8B8A8_SRGB"
       IN  IF ~created
           THEN /\ panic' = "create_image"
                /\ UNCHANGED bindless_vars
           ELSE /\ add_bindless_image_view(<<"image", Len(bindless_images) + 1>>)
                /\ bindless_images' = Append(bindless_images, format)
                /\ UNCHANGED <<image_luts, panic>>
    /\ last_call' = [op |-> "add_image", registered_before |-> next_bindless_image_id]
    /\ UNCHANGED <<packer_vars, geometry_vars, tlas, frame_vars>>

\* pub fn add_mesh(&mut self, mesh: PackedTriangleMesh);
\* blas_built = the device's create_ray_tracing_bottom_acceleration returned Ok
add_mesh(mesh, blas_built) ==
    /\ panic = "none"
    /\ LET mesh_idx == Len(meshes)
           packed == append_mesh_streams(mesh, 1, vertex_buffer_written, <<>>)
           o == packed.rets
           why == IF vertex_buffer_refs # 0 THEN "refs may not be retained"
                  ELSE IF packed.panic # "none" THEN packed.panic
                  ELSE IF indices_max(mesh) = <<>> THEN "mesh must not be empty"
                  ELSE IF ~blas_built THEN "blas"
                  ELSE IF ~slot_in_bounds(mesh_idx) THEN "index out of bounds"
                  ELSE "none"
       IN  /\ panic' = why
           /\ vertex_buffer_written' = IF why = "refs may not be retained"
                                       THEN vertex_buffer_written ELSE packed.written
           /\ vertex_buffer_data' =
                  IF why = "refs may not be retained"
                  THEN vertex_buffer_data
                  ELSE Append(vertex_buffer_data,
                              mesh_stream_copies(mesh, 1, vertex_buffer_written, <<>>))
           /\ last_call' = [op |-> "add_mesh", mesh |-> mesh, mesh_idx |-> mesh_idx,
                            offsets |-> IF why = "refs may not be retained"
                                        THEN <<>> ELSE o]
           /\ IF why = "none"
              THEN LET vertex_index_offset == as_u32(o[1])
                       vertex_core_offset == as_u32(o[2])
                       vertex_uv_offset == as_u32(o[3])
                       vertex_mat_offset == as_u32(o[4])
                       vertex_aux_offset == as_u32(o[5])
                       mat_data_offset == as_u32(o[6])
                       blas == [vertex_buffer |-> DeviceAddress(vertex_core_offset),
                                index_buffer |-> DeviceAddress(vertex_index_offset),
                                index_count |-> mesh.indices,
                                index_offset |-> 0,
                                max_vertex |-> indices_max(mesh)[1]]
                   IN  /\ mesh_buffer' =
                              write_slot(mesh_buffer, mesh_idx,
                                         GpuMesh(vertex_core_offset, vertex_uv_offset,
                                                 vertex_mat_offset, vertex_aux_offset,
                                                 mat_data_offset, vertex_index_offset))
                       /\ meshes' = Append(meshes,
                                           [index_buffer_offset |-> vertex_index_offset,
                                            index_count |-> as_u32(mesh.indices)])
                       /\ mesh_blas' = Append(mesh_blas, blas)
              ELSE UNCHANGED <<meshes, mesh_blas, mesh_buffer>>
    /\ UNCHANGED <<packer_vars, tlas, bindless_vars, frame_vars>>

\* mutant: the new instances are added to those of the previous structure
build_ray_tracing_top_level_acceleration_merging(tlas_built) ==
    /\ panic = "none"
    /\ IF tlas_built
       THEN /\ tlas' = << [instances |->
                              (IF tlas = <<>> THEN <<>> ELSE tlas[1].instances)
                                  \o mesh_blas] >>
            /\ UNCHANGED panic
       ELSE /\ panic' = "tlas"
            /\ UNCHANGED tlas
    /\ last_call' = [op |-> "build_ray_tracing_top_level_acceleration"]
    /\ UNCHANGED <<packer_vars, geometry_vars, bindless_vars, frame_vars>>

\* mutant: the instances are collected in reverse registration order
build_ray_tracing_top_level_acceleration_reversed(tlas_built) ==
    /\ panic = "none"
    /\ IF tlas_built
       THEN /\ tlas' = << [instances |->
                              [i \in 1 .. Len(mesh_blas) |->
                                   mesh_blas[Len(mesh_blas) + 1 - i]]] >>
            /\ UNCHANGED panic
       ELSE /\ panic' = "tlas"
            /\ UNCHANGED tlas
    /\ last_call' = [op |-> "build_ray_tracing_top_level_acceleration"]
    /\ UNCHANGED <<packer_vars, geometry_vars, bindless_vars, frame_vars>>

\* pub fn build_ray_tracing_top_level_acceleration(&mut self);
\* tlas_built = the device's create_ray_tracing_top_acceleration returned Ok
build_ray_tracing_top_level_acceleration(tlas_built) ==
    /\ panic = "none"
    /\ IF tlas_built
       THEN /\ tlas' = << [instances |-> mesh_blas] >>
            /\ UNCHANGED panic
       ELSE /\ panic' = "tlas"
            /\ UNCHANGED tlas
    /\ last_call' = [op |-> "build_ray_tracing_top_level_acceleration"]
    /\ UNCHANGED <<packer_vars, geometry_vars, bindless_vars, frame_vars>>

\* pub fn reset_frame_idx(&mut self)
reset_frame_idx ==
    /\ panic = "none"
    /\ frame_idx' = [hi |-> 0, lo |-> 0]
    /\ last_call' = [op |-> "reset_frame_idx"]
    /\ UNCHANGED <<packer_vars, geometry_vars, tlas, bindless_vars, render_mode,
                   reset_reference_accumulation, accum_img, rgs, panic>>

\* the render graph after prepare_render_graph's common part (lines 619-628).
\* Of a graph the model keeps what it holds of the renderer: a clone of the
\* vertex buffer, the access state the accumulation image was imported with,
\* whether that image is cleared, whether the top-level acceleration
\* structure was imported, and the images exported.
RenderGraph(mode) ==
    [mode |-> mode, vertex_buffer |-> FALSE, accum_access |-> "NotImported",
     clear_accum |-> FALSE, tlas |-> FALSE, exports |-> {}, state |-> "prepared"]

\* a render graph that was dropped: it holds nothing any more
DroppedRenderGraph ==
    [mode |-> "Standard", vertex_buffer |-> FALSE, accum_access |-> "NotImported",
     clear_accum |-> FALSE, tlas |-> FALSE, exports |-> {}, state |-> "dropped"]

\* mutant: the Standard path consumes the reset flag too
prepare_render_graph_standard_consuming ==
    LET rg == [RenderGraph("Standard") EXCEPT !.vertex_buffer = TRUE]
    IN  /\ IF tlas = <<>>
           THEN /\ panic' = "unwrap_tlas"
                /\ rgs' = Append(rgs, rg)
           ELSE /\ rgs' = Append(rgs, [rg EXCEPT !.tlas = TRUE, !.exports = {"lit"}])
                /\ UNCHANGED panic
        /\ reset_reference_accumulation' = FALSE
        /\ UNCHANGED accum_img

\* fn prepare_render_graph_standard(&mut self, rg, frame_state)
prepare_render_graph_standard ==
    LET rg == [RenderGraph("Standard") EXCEPT !.vertex_buffer = TRUE]
    IN  /\ IF tlas = <<>>
           THEN /\ panic' = "unwrap_tlas"
                /\ rgs' = Append(rgs, rg)
           ELSE /\ rgs' = Append(rgs, [rg EXCEPT !.tlas = TRUE, !.exports = {"lit"}])
                /\ UNCHANGED panic
        /\ UNCHANGED <<reset_reference_accumulation, accum_img>>

\* mutant: the accumulation image and the lit image are exported before the
\* top-level structure is imported
prepare_render_graph_reference_export_first ==
    LET rg == [RenderGraph("Reference") EXCEPT
                   !.accum_access = accum_img.access_type,
                   !.clear_accum = reset_reference_accumulation,
                   !.exports = {"accum_img", "lit"}]
    IN  /\ reset_reference_accumulation' = FALSE
        /\ accum_img' = [accum_img EXCEPT !.last_rg_handle = <<Len(rgs) + 1>>]
        /\ IF tlas = <<>>
           THEN /\ panic' = "unwrap_tlas"
                /\ rgs' = Append(rgs, rg)
           ELSE /\ rgs' = Append(rgs, [rg EXCEPT !.tlas = TRUE])
                /\ UNCHANGED panic

\* mutant: the accumulation image is imported in its initial access state
prepare_render_graph_reference_import_nothing ==
    LET rg == [RenderGraph("Reference") EXCEPT
                   !.accum_access = "Nothing",
                   !.clear_accum = reset_reference_accumulation]
    IN  /\ reset_reference_accumulation' = FALSE
        /\ IF tlas = <<>>
           THEN /\ panic' = "unwrap_tlas"
                /\ rgs' = Append(rgs, rg)
                /\ UNCHANGED accum_img
           ELSE /\ rgs' = Append(rgs, [rg EXCEPT !.tlas = TRUE,
                                                 !.exports = {"accum_img", "lit"}])
                /\ accum_img' = [accum_img EXCEPT !.last_rg_handle = <<Len(rgs) + 1>>]
                /\ UNCHANGED panic

\* mutant: the reset flag is read and not consumed
prepare_render_graph_reference_keep_flag ==
    LET rg == [RenderGraph("Reference") EXCEPT
                   !.accum_access = accum_img.access_type,
                   !.clear_accum = reset_reference_accumulation]
    IN  /\ UNCHANGED reset_reference_accumulation
        /\ IF tlas = <<>>
           THEN /\ panic' = "unwrap_tlas"
                /\ rgs' = Append(rgs, rg)
                /\ UNCHANGED accum_img
           ELSE /\ rgs' = Append(rgs, [rg EXCEPT !.tlas = TRUE,
                                                 !.exports = {"accum_img", "lit"}])
                /\ accum_img' = [accum_img EXCEPT !.last_rg_handle = <<Len(rgs) + 1>>]
                /\ UNCHANGED panic

\* fn prepare_render_graph_reference(&mut self, rg, _frame_state)
prepare_render_graph_reference ==
    LET rg == [RenderGraph("Reference") EXCEPT
                   !.accum_access = accum_img.access_type,
                   !.clear_accum = reset_reference_accumulation]
    IN  /\ reset_reference_accumulation' = FALSE
        /\ IF tlas = <<>>
           THEN /\ panic' = "unwrap_tlas"
                /\ rgs' = Append(rgs, rg)
                /\ UNCHANGED accum_img
           ELSE /\ rgs' = Append(rgs, [rg EXCEPT !.tlas = TRUE,
                                                 !.exports = {"accum_img", "lit"}])
                /\ accum_img' = [accum_img EXCEPT !.last_rg_handle = <<Len(rgs) + 1>>]
                /\ UNCHANGED panic

\* fn prepare_render_graph(&mut self, rg, frame_state) -> ExportedHandle<Image>
prepare_render_graph ==
    /\ panic = "none"
    /\ IF render_mode = "Standard"
       THEN prepare_render_graph_standard
       ELSE prepare_render_graph_reference
    /\ last_call' = [op |-> "prepare_render_graph", mode |-> render_mode]
    /\ UNCHANGED <<packer_vars, geometry_vars, tlas, bindless_vars, render_mode, frame_idx>>

\* mutant: the frame index stays at u32::MAX
saturating_add_1(f) ==
    IF f.lo < 65535 THEN [hi |-> f.hi, lo |-> f.lo + 1]
    ELSE IF f.hi < 65535 THEN [hi |-> f.hi + 1, lo |-> 0]
    ELSE f

\* u32::overflowing_add(1).0 on 16-bit halves
overflowing_add_1(f) ==
    IF f.lo < 65535 THEN [hi |-> f.hi, lo |-> f.lo + 1]
    ELSE [hi |-> (f.hi + 1) % 65536, lo |-> 0]

\* mutant: the pending handle is read and left in place
retire_render_graph_keep_handle(g, access) ==
    /\ panic = "none"
    /\ g \in 1 .. Len(rgs)
    /\ rgs[g].state = "prepared"
    /\ IF accum_img.last_rg_handle # <<>>
       THEN accum_img' = [accum_img EXCEPT !.access_type = access]
       ELSE UNCHANGED accum_img
    /\ frame_idx' = overflowing_add_1(frame_idx)
    /\ rgs' = [rgs EXCEPT ![g].state = "retired"]
    /\ last_call' = [op |-> "retire_render_graph", g |-> g, access |-> access]
    /\ UNCHANGED <<packer_vars, geometry_vars, tlas, bindless_vars, render_mode,
                   reset_reference_accumulation, panic>>

\* fn retire_render_graph(&mut self, retired_rg): g is the graph retired and
\* access the final access state it reports for the pending handle
retire_render_graph(g, access) ==
    /\ panic = "none"
    /\ g \in 1 .. Len(rgs)
    /\ rgs[g].state = "prepared"
    /\ IF accum_img.last_rg_handle # <<>>
       THEN accum_img' = [access_type |-> access, last_rg_handle |-> <<>>]
       ELSE UNCHANGED accum_img
    /\ frame_idx' = overflowing_add_1(frame_idx)
    /\ rgs' = [rgs EXCEPT ![g].state = "retired"]
    /\ last_call' = [op |-> "retire_render_graph", g |-> g, access |-> access]
    /\ UNCHANGED <<packer_vars, geometry_vars, tlas, bindless_vars, render_mode,
                   reset_reference_accumulation, panic>>

(***************************************************************************)
(* The caller                                                              *)
(***************************************************************************)
\* mutant: a mode change restarts the frame count
set_render_mode_resetting(mode) ==
    /\ panic = "none"
    /\ mode # render_mode
    /\ render_mode' = mode
    /\ frame_idx' = [hi |-> 0, lo |-> 0]
    /\ last_call' = [op |-> "set_render_mode"]
    /\ UNCHANGED <<packer_vars, geometry_vars, tlas, bindless_vars,
                   reset_reference_accumulation, accum_img, rgs, panic>>

\* the caller assigns the pub field render_mode
set_render_mode(mode) ==
    /\ panic = "none"
    /\ mode # render_mode
    /\ render_mode' = mode
    /\ last_call' = [op |-> "set_render_mode"]
    /\ UNCHANGED <<packer_vars, geometry_vars, tlas, bindless_vars, frame_idx,
                   reset_reference_accumulation, accum_img, rgs, panic>>

\* the caller requests an accumulation reset through the pub field
set_reset_reference_accumulation ==
    /\ panic = "none"
    /\ ~reset_reference_accumulation
    /\ reset_reference_accumulation' = TRUE
    /\ last_call' = [op |-> "set_reset_reference_accumulation"]
    /\ UNCHANGED <<packer_vars, geometry_vars, tlas, bindless_vars, render_mode,
                   frame_idx, accum_img, rgs, panic>>

\* the caller drops render graph g, and with it the references g holds
drop_render_graph(g) ==
    /\ panic = "none"
    /\ g \in 1 .. Len(rgs)
    /\ rgs[g].state # "dropped"
    /\ rgs' = [rgs EXCEPT ![g] = DroppedRenderGraph]
    /\ last_call' = [op |-> "drop_render_graph", g |-> g]
    /\ UNCHANGED <<packer_vars, geometry_vars, tlas, bindless_vars, render_mode,
                   frame_idx, reset_reference_accumulation, accum_img, panic>>

(***************************************************************************)
(* Inputs and specifications                                               *)
(***************************************************************************)
\* more bounds of the model
\* add_image / add_image_lut calls and prepare_render_graph calls in Spec
MaxImageCalls == 1
MaxGraphs == 1
\* successful add_mesh calls in SpecGeometry
MaxGeometryMeshes == 3
\* prepare_render_graph calls in SpecFrame
MaxFrameGraphs == 3
\* add_image / add_image_lut calls in SpecBindless
MaxBindlessCalls == 6

\* in Spec the meshes are large: the capacity of the arena ends the add_mesh calls
MeshInputs == {EmptyMesh, BigMesh}
GeometryMeshInputs == {TriMesh, BareMesh, EmptyMesh, BigMesh}
CapacityMeshInputs == {TriMesh, EmptyMesh}
AccessTypes == {"Nothing", "ComputeShaderWrite"}
\* frame indices SpecFrame starts from: 0, one below a carry out of the low
\* half, one below u32::MAX
FrameStarts == {[hi |-> 0, lo |-> 0], [hi |-> 0, lo |-> 65534],
                [hi |-> 65535, lo |-> 65534]}

Init ==
    /\ VickiRenderClient_new
    /\ BufferBuilder_new
    /\ rgs = <<>>
    /\ handles = <<>>
    /\ last_call = [op |-> "new"]
    /\ panic = "none"

\* the renderer after as many frames as the frame index counts, every one of
\* them prepared and retired in Standard mode and its graph dropped (those
\* graphs are not kept in rgs); frames were prepared only after a top-level
\* structure was built, here with no mesh registered
InitFrame ==
    /\ frame_idx \in FrameStarts
    /\ tlas = IF frame_idx = [hi |-> 0, lo |-> 0]
              THEN <<>> ELSE << [instances |-> <<>>] >>
    /\ accum_img = [access_type |-> "Nothing", last_rg_handle |-> <<>>]
    /\ reset_reference_accumulation = FALSE
    /\ meshes = <<>>
    /\ mesh_blas = <<>>
    /\ mesh_buffer = <<>>
    /\ vertex_buffer_written = 0
    /\ vertex_buffer_data = <<>>
    /\ descriptor_writes = << [dst_binding |-> 0, dst_array_element |-> 0,
                               resource |-> <<"mesh_buffer", 0>>],
                              [dst_binding |-> 1, dst_array_element |-> 0,
                               resource |-> <<"vertex_buffer", 0>>] >>
    /\ bindless_images = <<>>
    /\ image_luts = <<>>
    /\ next_bindless_image_id = 0
    /\ render_mode = "Standard"
    /\ BufferBuilder_new
    /\ rgs = <<>>
    /\ handles = <<>>
    /\ last_call = [op |-> "new"]
    /\ panic = "none"

BuilderAppend ==
    \E T \in ElemTypes, n \in 0 .. MaxCount :
        /\ Len(appends) < MaxAppends
        /\ BufferBuilder_append(T, n)

AddMesh ==
    \E mesh \in MeshInputs : add_mesh(mesh, TRUE)

AddGeometryMesh ==
    \E mesh \in GeometryMeshInputs, blas_built \in BOOLEAN :
        /\ Len(meshes) < MaxGeometryMeshes
        /\ add_mesh(mesh, blas_built)

AddCapacityMesh ==
    \E mesh \in CapacityMeshInputs, blas_built \in BOOLEAN : add_mesh(mesh, blas_built)

AddImage ==
    \E gamma \in {"Srgb"} :
        /\ next_bindless_image_id < MaxImageCalls
        /\ add_image(gamma, TRUE)

AddImageLut ==
    \E id \in 0 .. MaxImageCalls :
        /\ next_bindless_image_id < MaxImageCalls
        /\ add_image_lut("computer", id)

AddBindlessImage ==
    \E gamma \in {"Linear", "Srgb"}, created \in BOOLEAN :
        /\ next_bindless_image_id < MaxBindlessCalls
        /\ add_image(gamma, created)

AddBindlessImageLut ==
    \E id \in 0 .. MaxBindlessCalls :
        /\ next_bindless_image_id < MaxBindlessCalls
        /\ add_image_lut("computer", id)

BuildTlas == build_ray_tracing_top_level_acceleration(TRUE)

BuildGeometryTlas ==
    \E tlas_built \in BOOLEAN : build_ray_tracing_top_level_acceleration(tlas_built)

ResetFrameIdx == frame_idx # [hi |-> 0, lo |-> 0] /\ reset_frame_idx

Prepare == Len(rgs) < MaxGraphs /\ prepare_render_graph

PrepareFrame == Len(rgs) < MaxFrameGraphs /\ prepare_render_graph

Retire == \E g \in 1 .. Len(rgs), access \in AccessTypes : retire_render_graph(g, access)

SetRenderMode == \E mode \in {"Standard", "Reference"} : set_render_mode(mode)

RequestReset == set_reset_reference_accumulation

DropGraph == \E g \in 1 .. Len(rgs) : drop_render_graph(g)

\* a stand-alone BufferBuilder and its append calls
NextPacker == BuilderAppend

SpecPacker == Init /\ [][NextPacker]_vars

\* mesh registration and top-level builds
NextGeometry == AddGeometryMesh \/ BuildGeometryTlas

SpecGeometry == Init /\ [][NextGeometry]_vars

\* mesh registration up to the capacity of the descriptor table
NextMeshCapacity == AddCapacityMesh

SpecMeshCapacity == Init /\ [][NextMeshCapacity]_vars

\* image and LUT registration
NextBindless == AddBindlessImage \/ AddBindlessImageLut

SpecBindless == Init /\ [][NextBindless]_vars

\* the frame loop: prepare, retire, mode changes, accumulation resets and
\* frame-index resets, from frame indices up to the wrap
NextFrame ==
    \/ BuildTlas
    \/ PrepareFrame
    \/ Retire
    \/ SetRenderMode
    \/ RequestReset
    \/ ResetFrameIdx

SpecFrame == InitFrame /\ [][NextFrame]_vars

\* the renderer driven by its caller, with a device that builds every resource
\* it is asked for
Next ==
    \/ AddMesh
    \/ AddImage
    \/ AddImageLut
    \/ BuildTlas
    \/ ResetFrameIdx
    \/ Prepare
    \/ Retire
    \/ SetRenderMode
    \/ RequestReset
    \/ DropGraph

Spec == Init /\ [][Next]_vars

(***************************************************************************)
(* Properties of the linear buffer packer (SpecPacker)                     *)
(***************************************************************************)
\* the smallest multiple of a that is >= x
RoundUp(x, a) == ((x + a - 1) \div a) * a

\* C1 as stated: every append call returns an offset greater than or equal
\* to the offset returned by every earlier call.
C1_AllCallsMonotonic ==
    \A i, j \in 1 .. Len(appends) :
        (i < j /\ appends[i].returned /\ appends[j].returned)
            => appends[i].ret <= appends[j].ret

\* C1, amended: every append call with a non-empty array returns an offset
\* greater than or equal to the offset returned by every earlier call.
C1_NonEmptyCallsMonotonic ==
    \A i, j \in 1 .. Len(appends) :
        (i < j /\ appends[i].returned /\ appends[j].returned /\ appends[j].n > 0)
            => appends[i].ret <= appends[j].ret

\* a non-empty append returned a positive offset after an empty append and a
\* non-empty one returned
C1_Witness ==
    \E i, j, k \in 1 .. Len(appends) :
        /\ i < k /\ j < k
        /\ appends[i].returned /\ appends[i].n = 0
        /\ appends[j].returned /\ appends[j].n > 0
        /\ appends[k].returned /\ appends[k].n > 0 /\ appends[k].ret > appends[j].ret

\* C2: the offset returned by every append call is a multiple of the
\* alignment of that call's element type; for a non-empty array it is the
\* cursor rounded up to the next multiple of the alignment, and the data
\* occupies the bytes [offset, offset + count * element size).
C2_OffsetAligned ==
    \A k \in 1 .. Len(appends) :
        LET c == appends[k]
        IN  c.returned =>
                /\ c.ret % c.T.align = 0
                /\ c.n > 0 =>
                      /\ c.ret = RoundUp(c.cursor, c.T.align)
                      /\ \A i \in 0 .. BufLen - 1 :
                            (c.ret <= i /\ i < c.ret + c.n * c.T.size) => buf_slice[i] = k

\* an append returned an offset above a cursor that was not aligned for it
C2_Witness ==
    \E k \in 1 .. Len(appends) :
        /\ appends[k].returned /\ appends[k].n > 0
        /\ appends[k].cursor % appends[k].T.align # 0
        /\ appends[k].ret > appends[k].cursor

\* C3: an append whose aligned start plus byte length exceeds the capacity of
\* the destination panics, and leaves the bytes written so far and the
\* cursor as they were.
C3_RejectedAppendWritesNothing ==
    [][ Len(appends') = Len(appends) + 1 =>
          LET c == appends'[Len(appends')]
          IN  (c.n > 0 /\ RoundUp(buf_written, c.T.align) + c.n * c.T.size > BufLen)
                  => /\ panic' = "assert_capacity"
                     /\ buf_slice' = buf_slice
                     /\ buf_written' = buf_written ]_vars

\* an append was rejected for capacity after earlier appends wrote data
C3_Witness ==
    /\ panic = "assert_capacity"
    /\ Len(appends) >= 2
    /\ buf_written > 0
    /\ \E i \in 0 .. BufLen - 1 : buf_slice[i] # 0

(***************************************************************************)
(* Properties of the geometry arena and the mesh tables                    *)
(***************************************************************************)
\* C4: the write cursor of the geometry arena is at most the arena capacity
\* in every reachable state, and no operation decreases it.
C4_CursorBoundedAndMonotonic ==
    /\ [](vertex_buffer_written <= VERTEX_BUFFER_CAPACITY)
    /\ [][vertex_buffer_written' >= vertex_buffer_written]_vars

\* an add_mesh was rejected for capacity with more than half of the arena
\* written, after a top-level build and a frame
C4_Witness ==
    /\ panic = "assert_capacity"
    /\ last_call.op = "add_mesh"
    /\ 2 * vertex_buffer_written > VERTEX_BUFFER_CAPACITY
    /\ tlas # <<>>
    /\ Len(rgs) > 0

\* C5: right after the k-th successful add_mesh (k counted from 0), slot k
\* of the mesh descriptor table holds the six offsets the arena appends
\* returned for that mesh, each in its own field.
C5_SlotHoldsReturnedOffsets ==
    (last_call.op = "add_mesh" /\ panic = "none") =>
        LET k == Len(meshes) - 1
            o == last_call.offsets
        IN  /\ k >= 0
            /\ k \in DOMAIN mesh_buffer
            /\ Len(o) = 6
            /\ mesh_buffer[k] = [index_offset |-> o[1], vertex_core_offset |-> o[2],
                                 vertex_uv_offset |-> o[3], vertex_mat_offset |-> o[4],
                                 vertex_aux_offset |-> o[5], mat_data_offset |-> o[6]]

\* a second mesh was added whose six offsets are all different and lie
\* above 2^16
C5_Witness ==
    /\ last_call.op = "add_mesh"
    /\ panic = "none"
    /\ Len(meshes) >= 2
    /\ Len(last_call.offsets) = 6
    /\ Cardinality({last_call.offsets[i] : i \in 1 .. 6}) = 6
    /\ \A i \in 1 .. 6 : last_call.offsets[i] > 65536

\* C9: the number of registered meshes never exceeds MAX_GPU_MESHES; an
\* add_mesh called with MAX_GPU_MESHES meshes registered panics and adds no
\* registry entry, no bottom-level structure and no descriptor slot.
C9_MeshCountBounded ==
    /\ [](Len(meshes) <= MAX_GPU_MESHES)
    /\ [][ (Len(meshes) = MAX_GPU_MESHES /\ last_call'.op = "add_mesh")
              => /\ panic' # "none"
                 /\ meshes' = meshes
                 /\ mesh_blas' = mesh_blas
                 /\ mesh_buffer' = mesh_buffer ]_vars

\* a non-empty mesh was rejected by the bounds check of the full table
C9_Witness ==
    /\ panic = "index out of bounds"
    /\ last_call.op = "add_mesh"
    /\ last_call.mesh.indices > 0
    /\ Len(meshes) = MAX_GPU_MESHES
    /\ Len(mesh_blas) = MAX_GPU_MESHES
    /\ Cardinality(DOMAIN mesh_buffer) = MAX_GPU_MESHES

\* C10: add_mesh with an empty index array panics and leaves the mesh
\* registry, the bottom-level structures and the descriptor table unchanged.
C10_EmptyMeshRegistersNothing ==
    [][ (last_call'.op = "add_mesh" /\ last_call'.mesh.indices = 0)
           => /\ panic' # "none"
              /\ meshes' = meshes
              /\ mesh_blas' = mesh_blas
              /\ mesh_buffer' = mesh_buffer ]_vars

\* an empty mesh was rejected after another mesh had been registered
C10_Witness ==
    /\ panic = "mesh must not be empty"
    /\ last_call.op = "add_mesh"
    /\ last_call.mesh.indices = 0
    /\ Len(meshes) >= 1
    /\ Len(mesh_blas) = Len(meshes)

(***************************************************************************)
(* Properties of the bindless descriptor table (SpecBindless)              *)
(***************************************************************************)
\* C6: the n-th registration (images and LUTs together, counted from 0) is
\* assigned handle n and its descriptor write targets array element n of
\* binding 2; a handle once issued is never changed.
C6_HandlesInCallOrder ==
    /\ [] /\ Len(handles) = Len(bindless_images) + Len(image_luts)
          /\ Len(descriptor_writes) = Len(handles) + 2
          /\ \A n \in 0 .. Len(handles) - 1 :
                /\ handles[n + 1] = n
                /\ descriptor_writes[n + 3].dst_binding = 2
                /\ descriptor_writes[n + 3].dst_array_element = n
    /\ [][ \A n \in 1 .. Len(handles) :
              Len(handles') >= n /\ handles'[n] = handles[n] ]_vars

\* images and LUTs were registered in some interleaving
C6_Witness ==
    /\ panic = "none"
    /\ Len(handles) >= 3
    /\ Len(bindless_images) >= 1
    /\ Len(image_luts) >= 1
    /\ descriptor_writes[3].resource[1] = "image_lut"
    /\ descriptor_writes[4].resource[1] = "image"

\* C7: add_image_lut(computer, id) returns if and only if id equals the
\* number of registrations (images and LUTs together) made before the call.
C7_LutIdMustMatch ==
    last_call.op = "add_image_lut" =>
        (panic = "none" <=> last_call.id = Len(bindless_images) + Len(image_luts) - 1)

\* a LUT was registered with the matching id after images and LUTs
C7_Witness ==
    /\ last_call.op = "add_image_lut"
    /\ panic = "none"
    /\ last_call.id >= 2
    /\ Len(bindless_images) >= 1
    /\ Len(image_luts) >= 2

\* C8 as stated: a registration made when MAX_BINDLESS_DESCRIPTOR_COUNT
\* handles were issued panics, and every handle issued is smaller than
\* MAX_BINDLESS_DESCRIPTOR_COUNT.
C8_HandlesBelowCapacity ==
    /\ \A n \in 1 .. Len(handles) : handles[n] < MAX_BINDLESS_DESCRIPTOR_COUNT
    /\ (/\ last_call.op \in {"add_image", "add_image_lut"}
        /\ last_call.registered_before >= MAX_BINDLESS_DESCRIPTOR_COUNT)
            => panic # "none"

(***************************************************************************)
(* Properties of the renderer driven by its caller (Spec)                  *)
(***************************************************************************)
\* a render graph that took a clone of the vertex buffer is still alive
LiveVertexBufferClone ==
    \E g \in 1 .. Len(rgs) : rgs[g].vertex_buffer /\ rgs[g].state # "dropped"

\* C11: add_mesh writes to the geometry arena only while the renderer holds the
\* sole reference to the vertex buffer: called while a clone handed to a render
\* graph by a Standard-mode prepare_render_graph is alive, it panics with the
\* arena's bytes and the write cursor unchanged.
C11_SoleOwnerWrites ==
    [][ /\ (last_call'.op = "add_mesh" /\ LiveVertexBufferClone)
            => /\ panic' = "refs may not be retained"
               /\ vertex_buffer_data' = vertex_buffer_data
               /\ vertex_buffer_written' = vertex_buffer_written
        /\ (vertex_buffer_data' # vertex_buffer_data
               \/ vertex_buffer_written' # vertex_buffer_written)
            => ~LiveVertexBufferClone ]_vars

\* add_mesh was called while the graph of a Standard-mode prepare was alive,
\* after an earlier add_mesh had written to the arena
C11_Witness ==
    /\ panic = "refs may not be retained"
    /\ last_call.op = "add_mesh"
    /\ \E g \in 1 .. Len(rgs) : rgs[g].mode = "Standard" /\ rgs[g].vertex_buffer
    /\ vertex_buffer_written > 0

(***************************************************************************)
(* Properties of the top-level build (SpecGeometry)                        *)
(***************************************************************************)
\* C12: a successful build_ray_tracing_top_level_acceleration stores a
\* top-level structure whose instance list is the bottom-level structures of
\* the meshes registered at the call: one instance per registered mesh, and
\* instance i is the structure built over the index data of registry entry i.
C12_InstancesAreRegisteredMeshes ==
    [][ (last_call'.op = "build_ray_tracing_top_level_acceleration" /\ panic' = "none")
          => /\ Len(tlas') = 1
             /\ Len(tlas'[1].instances) = Len(meshes)
             /\ \A i \in 1 .. Len(meshes) :
                    /\ tlas'[1].instances[i] = mesh_blas[i]
                    /\ tlas'[1].instances[i].index_buffer
                           = DeviceAddress(meshes[i].index_buffer_offset) ]_vars

\* a top-level structure was built with two meshes registered, whose
\* bottom-level structures differ
C12_Witness ==
    /\ last_call.op = "build_ray_tracing_top_level_acceleration"
    /\ panic = "none"
    /\ Len(meshes) = 2
    /\ Len(tlas) = 1
    /\ Len(tlas[1].instances) = 2
    /\ tlas[1].instances[1] # tlas[1].instances[2]

(***************************************************************************)
(* Properties of the frame operations                                      *)
(***************************************************************************)
\* C13: prepare_render_graph called in Standard or in Reference mode while no
\* top-level acceleration structure was built panics; the graph it was
\* filling has no exported image and no export handle is left pending.
C13_PrepareWithoutTlasFails ==
    [][ (last_call'.op = "prepare_render_graph" /\ tlas = <<>>)
          => /\ panic' = "unwrap_tlas"
             /\ Len(rgs') = Len(rgs) + 1
             /\ rgs'[Len(rgs')].mode = render_mode
             /\ rgs'[Len(rgs')].exports = {}
             /\ accum_img'.last_rg_handle = accum_img.last_rg_handle ]_vars

\* a Reference-mode prepare without a top-level structure, with an
\* accumulation reset requested
C13_Witness ==
    /\ panic = "unwrap_tlas"
    /\ last_call.op = "prepare_render_graph"
    /\ last_call.mode = "Reference"
    /\ tlas = <<>>
    /\ rgs[Len(rgs)].clear_accum

\* the frame index one retire later, low half first and the carry after it
NextFrameIdx(f) ==
    LET lo == (f.lo + 1) % 65536
        carry == IF lo = 0 THEN 1 ELSE 0
    IN  [hi |-> (f.hi + carry) % 65536, lo |-> lo]

\* C14: every retire_render_graph call, in either mode and with or without a
\* pending export handle, succeeds and changes the frame index from f to
\* (f + 1) mod 2^32; from 2^32 - 1 the index becomes 0.
C14_FrameIdxWraps ==
    [][ last_call'.op = "retire_render_graph"
          => /\ panic' = "none"
             /\ frame_idx' = NextFrameIdx(frame_idx)
             /\ frame_idx'.hi \in 0 .. 65535
             /\ frame_idx'.lo \in 0 .. 65535
             /\ frame_idx = [hi |-> 65535, lo |-> 65535]
                   => frame_idx' = [hi |-> 0, lo |-> 0] ]_vars

\* a Reference-mode graph with a pending handle was retired at frame index
\* 2^32 - 1 and the index is 0
C14_Witness ==
    /\ last_call.op = "retire_render_graph"
    /\ rgs[last_call.g].mode = "Reference"
    /\ rgs[last_call.g].exports # {}
    /\ last_call.access = "ComputeShaderWrite"
    /\ accum_img.access_type = "ComputeShaderWrite"
    /\ frame_idx = [hi |-> 0, lo |-> 0]
    /\ panic = "none"

\* C15: a change of render_mode leaves the frame index unchanged;
\* reset_frame_idx sets it to 0 whatever the mode and the index are; no
\* operation other than retire_render_graph and reset_frame_idx changes it.
C15_FrameIdxWriters ==
    [][ /\ render_mode' # render_mode => frame_idx' = frame_idx
        /\ last_call'.op = "set_render_mode" => frame_idx' = frame_idx
        /\ last_call'.op = "reset_frame_idx"
              => /\ frame_idx' = [hi |-> 0, lo |-> 0]
                 /\ render_mode' = render_mode
                 /\ panic' = "none"
        /\ frame_idx' # frame_idx
              => last_call'.op \in {"retire_render_graph", "reset_frame_idx"} ]_vars

\* the mode was changed to Reference and back to Standard after a frame was
\* retired, and the frame index is not 0
C15_Witness ==
    /\ last_call.op = "set_render_mode"
    /\ render_mode = "Standard"
    /\ \E g \in 1 .. Len(rgs) : rgs[g].mode = "Reference" /\ rgs[g].state = "retired"
    /\ frame_idx = [hi |-> 0, lo |-> 1]
    /\ panic = "none"

\* C16: a Reference-mode prepare_render_graph clears the accumulation image
\* in its graph exactly when the reset flag is set at the call, and the flag
\* is false after it; the flag becomes true only when the caller sets it, so
\* later Reference-mode prepares clear nothing until the caller asks again.
\* A Standard-mode prepare neither clears the image nor touches the flag.
C16_ResetIsOneShot ==
    [][ /\ (last_call'.op = "prepare_render_graph" /\ render_mode = "Reference")
            => /\ rgs'[Len(rgs')].clear_accum = reset_reference_accumulation
               /\ reset_reference_accumulation' = FALSE
        /\ (last_call'.op = "prepare_render_graph" /\ render_mode = "Standard")
            => /\ ~rgs'[Len(rgs')].clear_accum
               /\ reset_reference_accumulation' = reset_reference_accumulation
        /\ (reset_reference_accumulation' /\ ~reset_reference_accumulation)
            => last_call'.op = "set_reset_reference_accumulation" ]_vars

\* two Reference-mode frames after one reset request: the first graph clears
\* the accumulation image, the second does not
C16_Witness ==
    /\ Len(rgs) = 2
    /\ rgs[1].mode = "Reference" /\ rgs[1].clear_accum /\ rgs[1].exports # {}
    /\ rgs[2].mode = "Reference" /\ ~rgs[2].clear_accum /\ rgs[2].exports # {}
    /\ last_call.op = "prepare_render_graph"
    /\ ~reset_reference_accumulation
    /\ panic = "none"

\* C17: the accumulation image has at most one pending export handle;
\* retire_render_graph with a handle pending stores the access state the
\* retired graph reports as the last-known access state and leaves no handle
\* pending, and with none pending leaves the accumulation state as it is; no
\* handle is pending after any retire, and only a Reference-mode prepare makes
\* one pending.
C17_HandleTakenOnRetire ==
    /\ [](Len(accum_img.last_rg_handle) <= 1)
    /\ [](last_call.op = "retire_render_graph" => accum_img.last_rg_handle = <<>>)
    /\ [][ /\ (last_call'.op = "retire_render_graph" /\ accum_img.last_rg_handle # <<>>)
               => accum_img' = [access_type |-> last_call'.access,
                                last_rg_handle |-> <<>>]
           /\ (last_call'.op = "retire_render_graph" /\ accum_img.last_rg_handle = <<>>)
               => accum_img' = accum_img
           /\ accum_img'.last_rg_handle # accum_img.last_rg_handle
               => \/ last_call'.op = "retire_render_graph"
                  \/ /\ last_call'.op = "prepare_render_graph"
                     /\ render_mode = "Reference"
                     /\ accum_img'.last_rg_handle = <<Len(rgs')>> ]_vars

\* a Reference-mode frame was prepared and retired: the access state the
\* graph reported replaced the initial one, the next Reference-mode graph
\* imported the image in that state, and its handle is pending
C17_Witness ==
    /\ Len(rgs) = 2
    /\ rgs[1].state = "retired"
    /\ rgs[1].accum_access = "Nothing"
    /\ rgs[2].accum_access = "ComputeShaderWrite"
    /\ accum_img = [access_type |-> "ComputeShaderWrite", last_rg_handle |-> <<2>>]
    /\ panic = "none"

(***************************************************************************)
(* Properties of the mesh descriptor table and the arena                   *)
(***************************************************************************)
\* C18: a mesh descriptor slot that was written keeps its value over every
\* later operation: add_mesh, image and LUT registration, top-level builds,
\* prepare, retire, frame-index reset, mode changes and graph drops.
C18_SlotsWrittenOnce ==
    [][ \A k \in DOMAIN mesh_buffer :
            /\ k \in DOMAIN mesh_buffer'
            /\ mesh_buffer'[k] = mesh_buffer[k] ]_vars

\* two slots were written by two add_mesh calls and a frame was prepared and
\* retired after them
C18_Witness ==
    /\ DOMAIN mesh_buffer = {0, 1}
    /\ mesh_buffer[0] # mesh_buffer[1]
    /\ last_call.op = "retire_render_graph"
    /\ panic = "none"

\* C19: the mesh registry, the list of bottom-level structures and the set
\* of written descriptor slots have the same size n <= MAX_GPU_MESHES, the
\* slots written are 0 .. n - 1, and for every i < n registry entry i's index
\* offset is slot i's index offset and bottom-level structure i was built
\* over the index data and the vertex data at slot i's offsets.
C19_RegistryInLockstep ==
    LET n == Len(meshes)
    IN  /\ n <= MAX_GPU_MESHES
        /\ Len(mesh_blas) = n
        /\ DOMAIN mesh_buffer = 0 .. n - 1
        /\ \A i \in 0 .. n - 1 :
               /\ meshes[i + 1].index_buffer_offset = mesh_buffer[i].index_offset
               /\ mesh_blas[i + 1].index_buffer
                      = [base |-> "vertex_buffer", offset |-> mesh_buffer[i].index_offset]
               /\ mesh_blas[i + 1].vertex_buffer
                      = [base |-> "vertex_buffer",
                         offset |-> mesh_buffer[i].vertex_core_offset]
               /\ mesh_blas[i + 1].index_count = meshes[i + 1].index_count

\* the table is full: MAX_GPU_MESHES meshes are registered, each at its own
\* index offset
C19_Witness ==
    /\ panic = "none"
    /\ Len(meshes) = MAX_GPU_MESHES
    /\ DOMAIN mesh_buffer = 0 .. MAX_GPU_MESHES - 1
    /\ mesh_buffer[MAX_GPU_MESHES - 1].index_offset
          = meshes[MAX_GPU_MESHES].index_buffer_offset
    /\ mesh_buffer[MAX_GPU_MESHES - 1].index_offset > mesh_buffer[0].vertex_core_offset
    /\ mesh_buffer[0].vertex_core_offset > mesh_buffer[0].index_offset

\* the position of a stream in the order of the appends
StreamPos(name) == CHOOSE k \in 1 .. Len(StreamOrder) : StreamOrder[k] = name

\* every byte range copied into the arena so far: <<call, position in the call>>
CopiedRanges ==
    {p \in (1 .. Len(vertex_buffer_data)) \X (1 .. Len(StreamOrder)) :
         p[2] <= Len(vertex_buffer_data[p[1]])}

RangeOf(p) == vertex_buffer_data[p[1]][p[2]]

\* C20: one add_mesh appends its streams in the order indices, positions,
\* uvs, material ids, colors, materials: the ranges it copies and the offsets
\* it gets for its non-empty streams are strictly increasing in that order;
\* over all add_mesh calls the byte ranges of the non-empty streams are
\* pairwise disjoint and end at or below the write cursor.
C20_StreamsInOrderAndDisjoint ==
    /\ \A c \in 1 .. Len(vertex_buffer_data) :
           \A j, k \in 1 .. Len(vertex_buffer_data[c]) :
               j < k => /\ StreamPos(vertex_buffer_data[c][j].stream)
                             < StreamPos(vertex_buffer_data[c][k].stream)
                        /\ vertex_buffer_data[c][j].start
                             < vertex_buffer_data[c][k].start
    /\ \A p \in CopiedRanges :
           /\ RangeOf(p).bytes > 0
           /\ RangeOf(p).start + RangeOf(p).bytes <= vertex_buffer_written
    /\ \A p, q \in CopiedRanges :
           p # q => \/ RangeOf(p).start + RangeOf(p).bytes <= RangeOf(q).start
                    \/ RangeOf(q).start + RangeOf(q).bytes <= RangeOf(p).start
    /\ (last_call.op = "add_mesh" /\ panic # "refs may not be retained")
          => LET o == last_call.offsets
                 copies == vertex_buffer_data[Len(vertex_buffer_data)]
             IN  /\ \A j, k \in DOMAIN o :
                        (j < k /\ last_call.mesh[StreamOrder[j]] > 0
                               /\ last_call.mesh[StreamOrder[k]] > 0)
                            => o[j] < o[k]
                 /\ \A j \in DOMAIN o :
                        last_call.mesh[StreamOrder[j]] > 0
                            => \E i \in DOMAIN copies :
                                   /\ copies[i].stream = StreamOrder[j]
                                   /\ copies[i].start = o[j]
                                   /\ copies[i].bytes = last_call.mesh[StreamOrder[j]]
                                                          * StreamType[StreamOrder[j]].size

\* three meshes were added: one with all six streams, one with three empty
\* streams, one with all six again
C20_Witness ==
    /\ panic = "none"
    /\ Len(meshes) = 3
    /\ Len(vertex_buffer_data) = 3
    /\ Len(vertex_buffer_data[1]) = 6
    /\ Len(vertex_buffer_data[2]) = 3
    /\ Len(vertex_buffer_data[3]) = 6
    /\ vertex_buffer_data[3][6].stream = "materials"
    /\ vertex_buffer_data[3][6].start + vertex_buffer_data[3][6].bytes
          = vertex_buffer_written

(***************************************************************************)
(* Properties of the top-level structure over builds and registrations     *)
(***************************************************************************)
\* C21: the top-level acceleration structure is absent after new and stays
\* absent until a build succeeds; no operation other than a successful build
\* changes it, so add_mesh leaves it as it is and meshes added after a build
\* are not in it; every successful build, the first or a later one, stores
\* the structure over the bottom-level structures registered at that build
\* and nothing else.
C21_BuildReplacesTlas ==
    /\ tlas = <<>>
    /\ [][ /\ last_call'.op = "add_mesh" => tlas' = tlas
           /\ tlas' # tlas
                 => /\ last_call'.op = "build_ray_tracing_top_level_acceleration"
                    /\ panic' = "none"
           /\ (last_call'.op = "build_ray_tracing_top_level_acceleration"
                  /\ panic' = "none")
                 => tlas' = << [instances |-> mesh_blas] >>
           /\ (last_call'.op = "build_ray_tracing_top_level_acceleration"
                  /\ panic' # "none")
                 => tlas' = tlas ]_vars

\* a structure was built over one mesh and a second mesh was added after it:
\* the structure still has the first mesh only
C21_Witness ==
    /\ last_call.op = "add_mesh"
    /\ panic = "none"
    /\ Len(meshes) = 2
    /\ tlas # <<>>
    /\ tlas[1].instances = <<mesh_blas[1]>>

(***************************************************************************)
(* Properties of the accumulation state over frames (SpecFrame)            *)
(***************************************************************************)
\* C22: the last-known access state of the accumulation image is "Nothing"
\* at the start and changes only in a retire_render_graph that had a handle
\* pending, to the state that retire reports; every Reference-mode
\* prepare_render_graph imports the image in the last-known state and leaves
\* that state as it is, so two such prepares with no retire between them
\* import the same state; a Reference-mode prepare that succeeds makes its own
\* handle the pending one, in place of any handle pending before.
C22_ImportsLastRetiredAccess ==
    /\ accum_img.access_type = "Nothing"
    /\ []((\A g \in 1 .. Len(rgs) : rgs[g].state = "prepared")
            => \A g \in 1 .. Len(rgs) :
                   rgs[g].mode = "Reference" => rgs[g].accum_access = "Nothing")
    /\ [][ /\ (last_call'.op = "prepare_render_graph" /\ render_mode = "Reference")
                => /\ rgs'[Len(rgs')].accum_access = accum_img.access_type
                   /\ accum_img'.access_type = accum_img.access_type
                   /\ panic' = "none" => accum_img'.last_rg_handle = <<Len(rgs')>>
           /\ accum_img'.access_type # accum_img.access_type
                => /\ last_call'.op = "retire_render_graph"
                   /\ accum_img.last_rg_handle # <<>>
                   /\ accum_img'.access_type = last_call'.access ]_vars

\* a Reference-mode frame was retired with a new access state, then two
\* Reference-mode frames were prepared with no retire between them: both
\* imported the state of that retire and the handle of the last one is pending
C22_Witness ==
    /\ Len(rgs) = 3
    /\ rgs[1].mode = "Reference" /\ rgs[1].state = "retired"
    /\ rgs[1].accum_access = "Nothing"
    /\ rgs[2].mode = "Reference" /\ rgs[2].state = "prepared"
    /\ rgs[3].mode = "Reference" /\ rgs[3].state = "prepared"
    /\ rgs[2].accum_access = "ComputeShaderWrite"
    /\ rgs[3].accum_access = "ComputeShaderWrite"
    /\ accum_img.last_rg_handle = <<3>>
    /\ last_call.op = "prepare_render_graph"
    /\ panic = "none"

\* C23: a Standard-mode prepare_render_graph leaves the accumulation-reset
\* flag, the pending export handle and the last-known access state as they
\* are, and its graph does not import the accumulation image; a
\* retire_render_graph with no handle pending leaves the access state as it
\* is; the reset flag goes from set to not set only in a Reference-mode
\* prepare, so a reset requested in Standard mode stays set until then.
C23_StandardKeepsAccumulationState ==
    [][ /\ (last_call'.op = "prepare_render_graph" /\ render_mode = "Standard")
            => /\ reset_reference_accumulation' = reset_reference_accumulation
               /\ accum_img'.last_rg_handle = accum_img.last_rg_handle
               /\ accum_img'.access_type = accum_img.access_type
               /\ rgs'[Len(rgs')].accum_access = "NotImported"
               /\ "accum_img" \notin rgs'[Len(rgs')].exports
        /\ (last_call'.op = "retire_render_graph" /\ accum_img.last_rg_handle = <<>>)
            => accum_img'.access_type = accum_img.access_type
        /\ (reset_reference_accumulation /\ ~reset_reference_accumulation')
            => /\ last_call'.op = "prepare_render_graph"
               /\ render_mode = "Reference" ]_vars

\* a Reference-mode frame left a new access state; then, in Standard mode, a
\* reset was requested and a frame was prepared and retired with no handle
\* pending: the flag is set and the access state is the one the Reference-mode
\* frame left, not the one the last retire reported
C23_Witness ==
    /\ Len(rgs) = 2
    /\ rgs[1].mode = "Reference" /\ rgs[1].state = "retired"
    /\ rgs[2].mode = "Standard" /\ rgs[2].state = "retired"
    /\ last_call.op = "retire_render_graph"
    /\ last_call.g = 2
    /\ last_call.access = "Nothing"
    /\ render_mode = "Standard"
    /\ reset_reference_accumulation
    /\ accum_img = [access_type |-> "ComputeShaderWrite", last_rg_handle |-> <<>>]
    /\ panic = "none"

====
